---- MODULE Spec2Model ----
(***************************************************************************)
(* Model of process_contacts (Add-Email-App/app.py): contacts are read     *)
(* from the source sheet, allocated to BigMailer lists by quota, and the   *)
(* two sheets are rewritten.  Cells are strings, a sheet is a sequence of  *)
(* rows (the header row first), a row dict is a function from header names *)
(* to cells.                                                               *)
(***************************************************************************)
EXTENDS Integers, Sequences, FiniteSets, TLC

VARIABLES
    source,                \* cells of the sheet "ContactsToAdd"
    dest,                  \* cells of the sheet "ProcessedContacts"
    allocations,           \* the run's allocations, in dict order
    pc,                    \* position of the run inside process_contacts
    headers,               \* headers returned by fetch_sheet_data
    rows,                  \* rows returned by fetch_sheet_data, as read
    unprocessed,           \* the list unprocessed (row dicts mutated in place)
    processed_rows_data,   \* rows to append to the target sheet
    updated_rows_source,   \* row dicts to write back to the source sheet
    idx,                   \* pointer into unprocessed
    li,                    \* position of the for loop in allocations.items()
    allocated,             \* the inner loop's counter
    log,                   \* history: one entry per record taken by the loop
    run,                   \* number of the current run
    source0,               \* history: source sheet when the run started
    dest0,                 \* history: target sheet when the run started
    upserted               \* history: Ids upserted successfully in earlier runs

vars == <<source, dest, allocations, pc, headers, rows, unprocessed,
          processed_rows_data, updated_rows_source, idx, li, allocated, log,
          run, source0, dest0, upserted>>

\* ------------------------------------------------------------------ bounds
MaxRows == 3
NumLists == 2
MaxTotal == 3
MaxRuns == 2

\* --------------------------------------------------------------- constants
SuccessPrefix == "Successfully added"
SkipStatus == "Skipped: No Email"
UpsertError == "Upsert failed with 500: x"
SheetHeaders == <<"Id", "Email", "Status">>

Range(s) == {s[k] : k \in 1..Len(s)}

\* ----------------------------------------------------------- pure helpers
\* mutant: the email is tested without being stripped
Strip_None(s) == s

\* str.strip(), for the whitespace character " "
RECURSIVE Strip(_)
Strip(s) ==
    IF Len(s) = 0 THEN s
    ELSE IF SubSeq(s, 1, 1) = " " THEN Strip(SubSeq(s, 2, Len(s)))
    ELSE IF SubSeq(s, Len(s), Len(s)) = " " THEN Strip(SubSeq(s, 1, Len(s) - 1))
    ELSE s

\* str.startswith(p)
StartsWith(s, p) == Len(s) >= Len(p) /\ SubSeq(s, 1, Len(p)) = p

\* dict.get(key, "")
Get(d, key) == IF key \in DOMAIN d THEN d[key] ELSE ""

\* row_dict["Status"] = s
SetStatus(d, s) ==
    [k \in DOMAIN d \cup {"Status"} |-> IF k = "Status" THEN s ELSE d[k]]

\* row_data += [""] * (len(headers) - len(row_data))
Pad(row_data, n) ==
    IF Len(row_data) >= n THEN row_data
    ELSE row_data \o [k \in 1..(n - Len(row_data)) |-> ""]

\* dict(zip(headers, row_data)) of the padded row
RowDict(hs, row_data) ==
    [h \in Range(hs) |->
        Pad(row_data, Len(hs))[CHOOSE k \in 1..Len(hs) :
            /\ hs[k] = h
            /\ \A m \in (k + 1)..Len(hs) : hs[m] # h]]

\* fetch_sheet_data: the headers and the rows of a sheet's values
FetchHeaders(values) == IF values = <<>> THEN <<>> ELSE values[1]

FetchRows(values) ==
    IF values = <<>> THEN <<>>
    ELSE [k \in 1..(Len(values) - 1) |-> RowDict(values[1], values[k + 1])]

\* [row_dict.get(h, "") for h in headers]
RowInOrder(d, hs) == [k \in 1..Len(hs) |-> Get(d, hs[k])]

\* the filter that keeps the rows not already 'Successfully added...'
IsUnprocessed(r) == ~StartsWith(Get(r, "Status"), SuccessPrefix)

Unprocessed(rs) == SelectSeq(rs, IsUnprocessed)

\* datetime.datetime.now().strftime('%Y-%m-%d'); one date per run
Today(r) == "d" \o ToString(r)

SuccessMsg(date, list_id) ==
    "Successfully added on " \o date \o " to " \o list_id

ErrorMsg(e) == "Error: " \o e

\* mutant: the quota test is off by one
LoopCond_OffByOne(a, count, i, n) == a <= count /\ i < n

\* the condition of the inner while loop
LoopCond(a, count, i, n) == a < count /\ i < n

\* mutant: the pointer is not advanced
NextIdx_Stuck(i) == i

\* idx += 1
NextIdx(i) == i + 1

\* mutant: only a successful upsert counts toward the quota
AllocatedAfter_OnlyOk(a, outcome) == IF outcome = "ok" THEN a + 1 ELSE a

\* mutant: a skipped row counts toward the quota as well
AllocatedAfter_Always(a, outcome) == a + 1

\* allocated += 1 at the end of the loop body, which `continue` jumps over
AllocatedAfter(a, outcome) == IF outcome = "skip" THEN a ELSE a + 1

\* mutant: a row whose upsert failed is not kept
RetainedAfter_DropFailed(retained, row_dict, outcome) ==
    IF outcome = "skip" THEN Append(retained, row_dict) ELSE retained

\* mutant: a row whose upsert succeeded is kept in the source as well
RetainedAfter_KeepOk(retained, row_dict, outcome) == Append(retained, row_dict)

\* updated_rows_source after the loop body handled row_dict
RetainedAfter(retained, row_dict, outcome) ==
    IF outcome = "ok" THEN retained ELSE Append(retained, row_dict)

\* processed_rows_data after the loop body handled row_dict
ProcessedAfter(processed, row_dict, hs, outcome) ==
    IF outcome = "ok" THEN Append(processed, RowInOrder(row_dict, hs))
    ELSE processed

\* mutant: the leftover loop starts one row too late
Leftover_SkipOne(unp, i) == SubSeq(unp, i + 2, Len(unp))

\* the leftover loop: the rows from idx to the end of unprocessed
Leftover(unp, i) == SubSeq(unp, i + 1, Len(unp))

\* mutant: the retained rows are written back in reverse order
NewSourceData_Reversed(retained, hs) ==
    [k \in 1..Len(retained) |-> [m \in 1..Len(hs) |->
        Get(retained[Len(retained) + 1 - k], hs[m])]]

\* new_source_data: the retained dicts as rows in header order
NewSourceData(retained, hs) ==
    [k \in 1..Len(retained) |-> RowInOrder(retained[k], hs)]

\* rewrite_sheet_data's all_values
AllValues(hs, data) == <<hs>> \o data

\* sheet.values().append
AppendValues(sheet, data) == sheet \o data

\* ------------------------------------------------------------------ inputs
ListId(j) == "L" \o ToString(j)

RowId(i) == "r" \o ToString(i)

\* Rows of the source sheet as the Sheets API returns them: trailing empty
\* cells are absent.
SheetRow(i, kind) ==
    CASE kind = "valid" -> <<RowId(i), "a@x.com">>
      [] kind = "blank" -> <<RowId(i)>>
      [] kind = "space" -> <<RowId(i), " ">>
      [] kind = "done"  -> <<RowId(i), "a@x.com", SuccessMsg(Today(0), ListId(1))>>

Kinds == {"valid", "blank", "space", "done"}

SourceSheets ==
    UNION {{<<SheetHeaders>> \o [i \in 1..n |-> SheetRow(i, ks[i])] :
                ks \in [1..n -> Kinds]} : n \in 0..MaxRows}

\* The sequences of runs start from the shorter sheets, without the rows
\* whose Email is a blank (they are handled as the rows without Email).
RunKinds == {"valid", "blank", "done"}

RunSheets ==
    UNION {{<<SheetHeaders>> \o [i \in 1..n |-> SheetRow(i, ks[i])] :
                ks \in [1..n -> RunKinds]} : n \in 0..(MaxRows - 1)}

\* main builds the dict from the fixed list ids, each count >= 0; the
\* requests are bounded by their total (main's total_requested)
RECURSIVE TotalRequested(_, _)
TotalRequested(q, n) == IF n = 0 THEN 0 ELSE q[n] + TotalRequested(q, n - 1)

AllocationRequests ==
    {[j \in 1..NumLists |-> [list_id |-> ListId(j), count |-> q[j]]] :
        q \in {f \in [1..NumLists -> 0..MaxTotal] :
                  TotalRequested(f, NumLists) <= MaxTotal}}

DestSheet0 ==
    <<SheetHeaders, <<RowId(0), "z@x.com", SuccessMsg(Today(0), ListId(1))>>>>

\* ------------------------------------------------------------------- state
Init ==
    /\ source \in SourceSheets
    /\ dest = DestSheet0
    /\ allocations \in AllocationRequests
    /\ pc = "start"
    /\ headers = <<>>
    /\ rows = <<>>
    /\ unprocessed = <<>>
    /\ processed_rows_data = <<>>
    /\ updated_rows_source = <<>>
    /\ idx = 0
    /\ li = 1
    /\ allocated = 0
    /\ log = <<>>
    /\ run = 1
    /\ source0 = source
    /\ dest0 = dest
    /\ upserted = {}

\* the sheets the sequences of runs start from
InitRuns ==
    /\ Init
    /\ source \in RunSheets

\* lines 128-131: no data rows, the run returns at once
FetchEmpty ==
    /\ pc = "start"
    /\ FetchRows(source) = <<>>
    /\ headers' = FetchHeaders(source)
    /\ rows' = <<>>
    /\ pc' = "done"
    /\ UNCHANGED <<source, dest, allocations, unprocessed, processed_rows_data,
                   updated_rows_source, idx, li, allocated, log, run, source0,
                   dest0, upserted>>

\* lines 128-141
Fetch ==
    /\ pc = "start"
    /\ FetchRows(source) # <<>>
    /\ headers' = FetchHeaders(source)
    /\ rows' = FetchRows(source)
    /\ unprocessed' = Unprocessed(rows')
    /\ processed_rows_data' = <<>>
    /\ updated_rows_source' = <<>>
    /\ idx' = 0
    /\ li' = 1
    /\ allocated' = 0
    /\ pc' = "loop"
    /\ UNCHANGED <<source, dest, allocations, log, run, source0, dest0, upserted>>

\* One pass of the while body (lines 149-191) with the given outcome.
Body(outcome, status) ==
    LET row_dict == SetStatus(unprocessed[idx + 1], status)
        list_id == allocations[li].list_id
    IN  /\ unprocessed' = [unprocessed EXCEPT ![idx + 1] = row_dict]
        /\ idx' = NextIdx(idx)
        /\ updated_rows_source' =
               RetainedAfter(updated_rows_source, row_dict, outcome)
        /\ processed_rows_data' =
               ProcessedAfter(processed_rows_data, row_dict, headers, outcome)
        /\ allocated' = AllocatedAfter(allocated, outcome)
        /\ log' = Append(log, [pos |-> idx, li |-> li, list_id |-> list_id,
                               outcome |-> outcome,
                               id |-> Get(unprocessed[idx + 1], "Id"),
                               email |-> Strip(Get(unprocessed[idx + 1], "Email"))])
        /\ UNCHANGED <<source, dest, allocations, pc, headers, rows, li, run,
                       source0, dest0, upserted>>

InLoop ==
    /\ pc = "loop"
    /\ li <= Len(allocations)
    /\ LoopCond(allocated, allocations[li].count, idx, Len(unprocessed))

\* lines 152-157
Skip ==
    /\ InLoop
    /\ Strip(Get(unprocessed[idx + 1], "Email")) = ""
    /\ Body("skip", SkipStatus)

\* lines 171-184: the upsert call returns
UpsertOk ==
    /\ InLoop
    /\ Strip(Get(unprocessed[idx + 1], "Email")) # ""
    /\ Body("ok", SuccessMsg(Today(run), allocations[li].list_id))

\* lines 185-189: the upsert call raises
UpsertFail ==
    /\ InLoop
    /\ Strip(Get(unprocessed[idx + 1], "Email")) # ""
    /\ Body("fail", ErrorMsg(UpsertError))

\* lines 144-148: the while condition is false, the for loop takes the next list
NextList ==
    /\ pc = "loop"
    /\ li <= Len(allocations)
    /\ ~LoopCond(allocated, allocations[li].count, idx, Len(unprocessed))
    /\ li' = li + 1
    /\ allocated' = 0
    /\ UNCHANGED <<source, dest, allocations, pc, headers, rows, unprocessed,
                   processed_rows_data, updated_rows_source, idx, log, run,
                   source0, dest0, upserted>>

\* lines 193-196
LeftoverRows ==
    /\ pc = "loop"
    /\ li > Len(allocations)
    /\ updated_rows_source' = updated_rows_source \o Leftover(unprocessed, idx)
    /\ idx' = IF idx < Len(unprocessed) THEN Len(unprocessed) ELSE idx
    /\ pc' = "clear"
    /\ UNCHANGED <<source, dest, allocations, headers, rows, unprocessed,
                   processed_rows_data, li, allocated, log, run, source0, dest0,
                   upserted>>

\* lines 52-53: rewrite_sheet_data clears the range
Clear ==
    /\ pc = "clear"
    /\ source' = <<>>
    /\ pc' = "update"
    /\ UNCHANGED <<dest, allocations, headers, rows, unprocessed,
                   processed_rows_data, updated_rows_source, idx, li, allocated,
                   log, run, source0, dest0, upserted>>

\* lines 198-204, 55-61: rewrite_sheet_data writes headers + data
Update ==
    /\ pc = "update"
    /\ source' = AllValues(headers, NewSourceData(updated_rows_source, headers))
    /\ pc' = "append"
    /\ UNCHANGED <<dest, allocations, headers, rows, unprocessed,
                   processed_rows_data, updated_rows_source, idx, li, allocated,
                   log, run, source0, dest0, upserted>>

\* lines 207-209
AppendProcessed ==
    /\ pc = "append"
    /\ processed_rows_data # <<>>
    /\ dest' = AppendValues(dest, processed_rows_data)
    /\ pc' = "done"
    /\ UNCHANGED <<source, allocations, headers, rows, unprocessed,
                   processed_rows_data, updated_rows_source, idx, li, allocated,
                   log, run, source0, dest0, upserted>>

\* line 207 false, line 211
NoAppend ==
    /\ pc = "append"
    /\ processed_rows_data = <<>>
    /\ pc' = "done"
    /\ UNCHANGED <<source, dest, allocations, headers, rows, unprocessed,
                   processed_rows_data, updated_rows_source, idx, li, allocated,
                   log, run, source0, dest0, upserted>>

\* lines 258-278: the button is pressed again, with new counts
OkIds(l) == {l[k].id : k \in {m \in 1..Len(l) : l[m].outcome = "ok"}}

RunAgain ==
    /\ pc = "done"
    /\ run < MaxRuns
    /\ run' = run + 1
    /\ allocations' \in AllocationRequests
    /\ pc' = "start"
    /\ upserted' = upserted \cup OkIds(log)
    /\ log' = <<>>
    /\ source0' = source
    /\ dest0' = dest
    /\ headers' = <<>>
    /\ rows' = <<>>
    /\ unprocessed' = <<>>
    /\ processed_rows_data' = <<>>
    /\ updated_rows_source' = <<>>
    /\ idx' = 0
    /\ li' = 1
    /\ allocated' = 0
    /\ UNCHANGED <<source, dest>>

Next ==
    \/ FetchEmpty
    \/ Fetch
    \/ Skip
    \/ UpsertOk
    \/ UpsertFail
    \/ NextList
    \/ LeftoverRows
    \/ Clear
    \/ Update
    \/ AppendProcessed
    \/ NoAppend

\* one run of process_contacts
Spec == Init /\ [][Next]_vars

NextRuns ==
    \/ Next
    \/ RunAgain

\* a sequence of runs on the same spreadsheet
SpecRuns == InitRuns /\ [][NextRuns]_vars

\* ------------------------------------------------- vocabulary of the claims
\* the queue of the run: the rows read whose Status did not start with the
\* success prefix, as they were read
Queue0 == SelectSeq(rows, LAMBDA r : ~StartsWith(Get(r, "Status"), "Successfully added"))

\* the rows read that the status filter excludes
ExcludedIds ==
    {Get(rows[k], "Id") :
        k \in {m \in 1..Len(rows) : StartsWith(Get(rows[m], "Status"), "Successfully added")}}

IdsOfDicts(ds) == {Get(ds[k], "Id") : k \in 1..Len(ds)}

IdsOfRows(rs) == {rs[k][1] : k \in 1..Len(rs)}

DataRows(sheet) == IF sheet = <<>> THEN <<>> ELSE Tail(sheet)

RECURSIVE AllSpaces(_)
AllSpaces(s) ==
    \/ Len(s) = 0
    \/ SubSeq(s, 1, 1) = " " /\ AllSpaces(SubSeq(s, 2, Len(s)))

HasEmail(r) == ~AllSpaces(Get(r, "Email"))

\* the run is past the allocation loops and the leftover loop
PastLoop == pc \in {"clear", "update", "append", "done"} /\ rows # <<>>

\* q1 + ... + qj
RECURSIVE Cum(_)
Cum(j) == IF j = 0 THEN 0 ELSE allocations[j].count + Cum(j - 1)

\* records taken while list j was being filled, and those among them that
\* were passed to upsert
Taken(j) == Cardinality({k \in 1..Len(log) : log[k].li = j})

Attempted(j) ==
    Cardinality({k \in 1..Len(log) : log[k].li = j /\ log[k].outcome # "skip"})

\* number of queue records before position i (0-based) that have an email
Rank(i) == Cardinality({m \in 1..i : HasEmail(Queue0[m])})

Quotas == [j \in 1..Len(allocations) |-> allocations[j].count]

Emails(q) == [k \in 1..Len(q) |-> Get(q[k], "Email")]

Outcomes == [k \in 1..Len(log) |-> log[k].outcome]

\* ------------------------------------------------------------------ claims

\* C1: when a run completes, every record read from the source table is in
\* exactly one of processed (appended to the destination table), retained
\* (written back to the source table) and excluded by the status filter, so
\* |processed| + |retained| + |excluded| = |records read|.
C1_Conservation ==
    LET P == IdsOfRows(processed_rows_data)
        R == IdsOfDicts(updated_rows_source)
        E == ExcludedIds
    IN  /\ PastLoop =>
            /\ P \cup R \cup E = IdsOfDicts(rows)
            /\ P \cap R = {} /\ P \cap E = {} /\ R \cap E = {}
            /\ Len(processed_rows_data) + Len(updated_rows_source)
                  + Cardinality(E) = Len(rows)
        /\ pc = "done" =>
            /\ Len(processed_rows_data) + Len(updated_rows_source)
                  + Cardinality(E) = Len(rows)
            /\ rows # <<>> => DataRows(source) = [k \in 1..Len(updated_rows_source) |->
                                  RowInOrder(updated_rows_source[k], headers)]
            /\ dest = dest0 \o processed_rows_data

\* C1 witness: a completed run with a processed, a retained and an excluded
\* record.
C1_Witness ==
    /\ pc = "done"
    /\ processed_rows_data # <<>>
    /\ updated_rows_source # <<>>
    /\ ExcludedIds # {}

\* the scenario of C2: queue [valid email, empty email, valid email] and one
\* list with quota 2 (the other lists of the dict ask for nothing)
C2_Scenario ==
    /\ Emails(Queue0) = <<"a@x.com", "", "a@x.com">>
    /\ Quotas[1] = 2
    /\ \A j \in 2..Len(Quotas) : Quotas[j] = 0

\* C2 as stated: every record taken while a list is being filled counts
\* toward its quota whatever its outcome, so the number of records consumed
\* while filling a list never exceeds its quota; in the scenario the third
\* record is never reached, processed has 1 row and retained has 2.
C2_EveryTakenRecordCounts ==
    /\ \A j \in 1..Len(allocations) : Taken(j) <= allocations[j].count
    /\ Len(log) <= Cum(Len(allocations))
    /\ (pc = "done" /\ C2_Scenario /\ Outcomes[1] = "ok") =>
            /\ Len(log) = 2
            /\ Len(processed_rows_data) = 1
            /\ Len(updated_rows_source) = 2

\* C2 amended: a taken record counts toward the quota of the list being
\* filled when it is passed to upsert (success or failure) and does not
\* count when it is skipped for a missing email: the number of records passed
\* to upsert while filling a list never exceeds its quota, and the number
\* taken exceeds it by at most the number skipped.  In the scenario the
\* third record is reached: when both upserts succeed processed has 2 rows
\* and retained has 1.
C2_UpsertedRecordsCount ==
    /\ \A j \in 1..Len(allocations) :
          /\ Attempted(j) <= allocations[j].count
          /\ Taken(j) <= allocations[j].count
                + Cardinality({k \in 1..Len(log) :
                                  log[k].li = j /\ log[k].outcome = "skip"})
    /\ Cardinality({k \in 1..Len(log) : log[k].outcome # "skip"})
          <= Cum(Len(allocations))
    /\ (pc = "done" /\ C2_Scenario) =>
            /\ Len(log) = 3
            /\ Outcomes[2] = "skip"
            /\ (Outcomes[1] = "ok" /\ Outcomes[3] = "ok") =>
                  /\ Len(processed_rows_data) = 2
                  /\ Len(updated_rows_source) = 1

\* C2 witness: the scenario has run to the end with both upserts succeeding.
C2_Witness ==
    /\ pc = "done"
    /\ C2_Scenario
    /\ Outcomes = <<"ok", "skip", "ok">>

\* C3: a row whose Status begins with 'Successfully added' at the start of a
\* run is still in the source table with the same field values after the
\* run, and is neither processed nor retained.
C3_DoneRowsLeftUntouched ==
    pc = "done" =>
        \A k \in 2..Len(source0) :
            LET row0 == Pad(source0[k], Len(SheetHeaders))
            IN  StartsWith(row0[3], "Successfully added") =>
                    /\ \E m \in 2..Len(source) :
                          Pad(source[m], Len(SheetHeaders)) = row0
                    /\ row0[1] \notin IdsOfRows(processed_rows_data)
                    /\ row0[1] \notin IdsOfDicts(updated_rows_source)

\* the retained dict of the record with the given Id has the given Status
RetainedWith(id, status) ==
    \E m \in 1..Len(updated_rows_source) :
        /\ Get(updated_rows_source[m], "Id") = id
        /\ Get(updated_rows_source[m], "Status") = status

\* the processed row of the record with the given Id has the given Status
ProcessedWith(id, status) ==
    \E m \in 1..Len(processed_rows_data) :
        /\ processed_rows_data[m][1] = id
        /\ processed_rows_data[m][3] = status

\* every queue record that the quotas still had room for has been taken
TakenWhileRoom ==
    \A i \in 0..(Len(Queue0) - 1) :
        (i < Len(log)) <=> (Rank(i) < Cum(Len(allocations)))

AllValid(n) == Emails(Queue0) = [k \in 1..n |-> "a@x.com"]

\* C4 as stated: the record at queue position i is consumed while filling
\* the list Lj with q1+...+q(j-1) <= i < q1+...+qj, whatever the outcomes.
C4_PositionDecidesList ==
    \A k \in 1..Len(log) :
        /\ Cum(log[k].li - 1) <= log[k].pos
        /\ log[k].pos < Cum(log[k].li)

\* C4 amended: the record at queue position i, with r records of non-empty
\* (stripped) Email before it in the queue, is consumed while filling the
\* list Lj with q1+...+q(j-1) <= r < q1+...+qj, whatever the outcome of the
\* upsert calls; records with r >= q1+...+qn are not consumed.  For queue
\* [A, B, C] of records with emails and allocation [(L1, 1), (L2, 2)], A is
\* attempted against L1 and B and C against L2.
C4_RankDecidesList ==
    /\ \A k \in 1..Len(log) :
          /\ log[k].pos = k - 1
          /\ log[k].list_id = allocations[log[k].li].list_id
          /\ Cum(log[k].li - 1) <= Rank(log[k].pos)
          /\ Rank(log[k].pos) < Cum(log[k].li)
    /\ PastLoop => TakenWhileRoom
    /\ (PastLoop /\ AllValid(3) /\ Quotas[1] = 1 /\ Quotas[2] = 2) =>
          [k \in 1..Len(log) |-> log[k].list_id] = <<ListId(1), ListId(2), ListId(2)>>

\* C4 witness: after a failed upsert and a skipped record, a record is
\* handled under a list that its position alone would no longer give.
C4_Witness ==
    /\ PastLoop
    /\ \E k \in 1..Len(log) :
          /\ log[k].pos >= Cum(log[k].li)
          /\ log[k].outcome # "skip"
          /\ \E m \in 1..(k - 1) : log[m].outcome = "fail"

\* C5: a failing upsert does not abort the run nor change the handling of
\* another record: the failed record is retained with Status
\* 'Error: <reason>', the records whose upsert succeeds are processed, and
\* every later record within the remaining quotas is still taken.  For
\* queue [A, B, C] and one list of quota 3, if only B's upsert fails then A
\* and C are in processed and B is in retained with an error status.
C5_FailureIsolated ==
    /\ \A k \in 1..Len(log) :
          /\ log[k].outcome = "fail" =>
                /\ RetainedWith(log[k].id, "Error: Upsert failed with 500: x")
                /\ log[k].id \notin IdsOfRows(processed_rows_data)
          /\ log[k].outcome = "ok" =>
                /\ ProcessedWith(log[k].id,
                      "Successfully added on d1 to " \o log[k].list_id)
                /\ log[k].id \notin IdsOfDicts(updated_rows_source)
    /\ PastLoop => TakenWhileRoom
    /\ (pc = "done" /\ AllValid(3) /\ Quotas[1] = 3
            /\ Outcomes = <<"ok", "fail", "ok">>) =>
          /\ IdsOfRows(processed_rows_data) =
                {Get(Queue0[1], "Id"), Get(Queue0[3], "Id")}
          /\ IdsOfDicts(updated_rows_source) = {Get(Queue0[2], "Id")}
          /\ DataRows(source) =
                <<RowInOrder(SetStatus(Queue0[2], "Error: Upsert failed with 500: x"),
                             SheetHeaders)>>

\* C5 witness: queue [A, B, C], one list of quota 3, only B's upsert failed.
C5_Witness ==
    /\ pc = "done"
    /\ AllValid(3)
    /\ Quotas[1] = 3
    /\ Outcomes = <<"ok", "fail", "ok">>

\* what C6 says of a state: the records are taken one by one in queue
\* order, the cursor counts them, and upsert has been called once for each
\* taken record that has an email and for no other
C6_State ==
    /\ Len(log) <= idx
    /\ pc = "loop" => Len(log) = idx
    /\ idx <= Len(unprocessed)
    /\ \A k \in 1..Len(log) :
          /\ log[k].pos = k - 1
          /\ log[k].id = Get(Queue0[k], "Id")
          /\ (log[k].outcome # "skip") <=> HasEmail(Queue0[k])
          /\ \A m \in 1..Len(log) : log[m].id = log[k].id => m = k

\* C6: the cursor only moves forward and each record is taken at most once
\* in a run, so upsert is called at most once for a record, no record is sent
\* to two lists, and upsert is called exactly once for each consumed record
\* with a non-empty email.
C6_CursorForward == [](C6_State) /\ [][idx' >= idx]_vars

\* C6 witness: a run that took records under two lists, one of them skipped.
C6_Witness ==
    /\ pc = "done"
    /\ \E k, m \in 1..Len(log) :
          /\ log[k].li # log[m].li
          /\ log[k].outcome # "skip"
          /\ log[m].outcome # "skip"
    /\ \E k \in 1..Len(log) : log[k].outcome = "skip"

\* C7: a consumed record whose Email is empty after stripping is not passed
\* to upsert, gets Status 'Skipped: No Email' and is retained, never
\* processed, at every queue position and under every list.
C7_BlankEmailSkipped ==
    \A k \in 1..Len(log) :
        AllSpaces(Get(Queue0[log[k].pos + 1], "Email")) =>
            /\ log[k].outcome = "skip"
            /\ RetainedWith(log[k].id, "Skipped: No Email")
            /\ log[k].id \notin IdsOfRows(processed_rows_data)
            /\ PastLoop => Get(unprocessed[log[k].pos + 1], "Status") = "Skipped: No Email"

\* C7 witness: a record whose Email is a blank was skipped after the first
\* queue position, while the second list was being filled.
C7_Witness ==
    /\ pc = "done"
    /\ \E k \in 1..Len(log) :
          /\ log[k].pos > 0
          /\ log[k].li = 2
          /\ Get(Queue0[log[k].pos + 1], "Email") = " "
          /\ log[k].outcome = "skip"

\* the dicts written as sheet rows, column by column
AsRows(ds) ==
    [k \in 1..Len(ds) |-> [m \in 1..Len(SheetHeaders) |-> Get(ds[k], SheetHeaders[m])]]

ZeroQuotas == \A j \in 1..Len(allocations) : allocations[j].count = 0

\* C8: when every quota is 0 the run makes no upsert call, processed is
\* empty and retained is the original queue, every record unchanged and in
\* the original order.
C8_ZeroQuotas ==
    ZeroQuotas =>
        /\ log = <<>>
        /\ processed_rows_data = <<>>
        /\ PastLoop => updated_rows_source = Queue0
        /\ (pc = "done" /\ rows # <<>>) =>
              /\ DataRows(source) = AsRows(Queue0)
              /\ dest = dest0

\* C8 witness: a completed run with all quotas 0 over a queue of two or more
\* records, beside an excluded one.
C8_Witness ==
    /\ pc = "done"
    /\ ZeroQuotas
    /\ Len(Queue0) >= 2
    /\ ExcludedIds # {}

\* what C9 says of a state: which sheet has been written at each position of
\* the run
C9_State ==
    /\ pc \in {"start", "loop", "clear"} => source = source0 /\ dest = dest0
    /\ pc = "update" => source = <<>> /\ dest = dest0
    /\ pc = "append" =>
          /\ source = <<SheetHeaders>> \o AsRows(updated_rows_source)
          /\ dest = dest0
          /\ \A id \in IdsOfRows(processed_rows_data) :
                id \notin IdsOfRows(DataRows(source)) \cup IdsOfRows(DataRows(dest))
    /\ pc = "done" =>
          IF rows = <<>> THEN source = source0 /\ dest = dest0
          ELSE /\ source = <<SheetHeaders>> \o AsRows(updated_rows_source)
               /\ dest = dest0 \o processed_rows_data

\* C9: the store is written only after the last upsert call has returned:
\* first the source table is overwritten with the headers and the retained
\* records in retained order, then the processed records are appended to the
\* destination table.  A run that stops before the overwrite leaves both
\* tables as they were, and one that stops between the overwrite and the
\* append leaves the processed records in neither table.
C9_WriteOrder ==
    /\ [](C9_State)
    /\ [][log' # log => (source' = source0 /\ dest' = dest0)]_vars
    /\ [][(pc \in {"update", "append", "done"}) => (log' = log)]_vars

\* C9 witness: the run stands between the overwrite and the append, with
\* processed records and two or more retained ones.
C9_Witness ==
    /\ pc = "append"
    /\ processed_rows_data # <<>>
    /\ Len(updated_rows_source) >= 2

\* the Status cell of a sheet row
StatusCell(row) == Pad(row, Len(SheetHeaders))[3]

\* C10: across completed runs on the same store, a record whose upsert
\* succeeded in one run is never passed to upsert in a later run: after each
\* completed run the source table holds no row whose Status begins with
\* 'Successfully added', while every row retained with an 'Error: ...' or
\* 'Skipped: No Email' status is part of the queue of the next run.
C10_NoSecondUpsert ==
    /\ \A k \in 1..Len(log) : log[k].outcome # "skip" => log[k].id \notin upserted
    /\ pc = "done" =>
          \A m \in 2..Len(source) :
              ~StartsWith(StatusCell(source[m]), "Successfully added")
    /\ pc # "start" =>
          \A k \in 2..Len(source0) :
              (\/ StartsWith(StatusCell(source0[k]), "Error: ")
               \/ StatusCell(source0[k]) = "Skipped: No Email") =>
                  \E m \in 1..Len(unprocessed) :
                      Get(unprocessed[m], "Id") = source0[k][1]

\* C10 witness: a second run has completed after a run with a successful
\* upsert, and in it a record retained with an error status was upserted.
C10_Witness ==
    /\ run = 2
    /\ pc = "done"
    /\ upserted # {}
    /\ \E k \in 1..Len(log) :
          /\ log[k].outcome = "ok"
          /\ \E m \in 2..Len(source0) :
                /\ source0[m][1] = log[k].id
                /\ StartsWith(StatusCell(source0[m]), "Error: ")

====
